---- MODULE Spec2Model ----
(***************************************************************************)
(* Oasis HOA 2026 budget dashboard (src/app.py): a Streamlit script that   *)
(* is re-run from the top on every widget interaction.  The model follows  *)
(* one browser session: the password gate, the cached CSV load, the note   *)
(* driven re-mapping of 2025 actuals, the variance columns, the currency   *)
(* conversion and the rendered views.                                      *)
(*                                                                         *)
(* Amounts are integers in the base currency (MXN).  The conversion rates  *)
(* 1.0, 0.058 and 0.079 are kept exact as thousandths, so a converted      *)
(* amount is an integer number of thousandths of the display currency.     *)
(* A percentage is an exact fraction <<numerator, denominator>> in lowest  *)
(* terms with a positive denominator.                                      *)
(***************************************************************************)
EXTENDS Integers, Sequences, FiniteSets, TLC

VARIABLES
    source,            \* the CSV file on disk
    cache,             \* st.cache_data's entry for load_data()
    password_correct,  \* st.session_state["password_correct"]: "unset", "True", "False"
    everCorrect,       \* history: the correct secret was submitted in this session
    currency,          \* value of the "Select Currency" selectbox
    selected_cat,      \* value chosen in the "Filter by Category" selectbox ("" = none yet)
    rendered,          \* widgets drawn by the last run of the script
    pc,                \* position of the script run
    idx,               \* position of the iterrows() loop (1-based)
    iter_rows,         \* the rows iterrows() yields (taken when the loop starts)
    frames,            \* the DataFrame objects of the current run
    bind,              \* which object each of raw_df, df, adj_df names
    err,               \* messages st.error has shown in the current run
    ran,               \* dashboard operations executed in the current run
    view               \* what the current run has rendered

vars == <<source, cache, password_correct, everCorrect, currency, selected_cat,
          rendered, pc, idx, iter_rows, frames, bind, err, ran, view>>

----------------------------------------------------------------------------
(* Bounds of the model *)

\* rows of the table in the reallocation specification
NRows == 3
\* rows of the table in the session and variance specifications
SessionRows == 2
\* largest 2025 amount in a cell of the reallocation specification
MaxPrior == 1
\* largest amount in a cell of the variance specification
MaxAmount == 2
\* longest raw cell text in the load specification
MaxCellLen == 2

(* Program constants *)

\* nlargest(5, 'Diff') / nsmallest(5, 'Diff')
TopN == 5

Secret == "Oasis2026"

Currencies == {"MXN", "USD", "CAD"}

\* rates = {"MXN": 1.0, "USD": 0.058, "CAD": 0.079}, in thousandths
RateMilli(c) == CASE c = "MXN" -> 1000 [] c = "USD" -> 58 [] c = "CAD" -> 79

AmountCols == {"2026 Budget", "2025 Actuals", "2024 Actuals"}

\* the columns load_data itself touches
LoadCols == AmountCols \cup {"2026 Notes"}

Columns == LoadCols \cup {"Line", "Category", "Area"}

DefaultNote == "No justification provided."

----------------------------------------------------------------------------
(* Text: cells and notes *)

DigitChars == <<"0", "1", "2", "3", "4", "5", "6", "7", "8", "9">>

IsDigit(c) == \E i \in 1..10 : DigitChars[i] = c

DigitVal(c) == (CHOOSE i \in 1..10 : DigitChars[i] = c) - 1

RECURSIVE ParseNat(_)
ParseNat(s) ==
    IF s = <<>> THEN 0
    ELSE 10 * ParseNat(SubSeq(s, 1, Len(s) - 1)) + DigitVal(s[Len(s)])

RECURSIVE NatText(_)
NatText(n) ==
    IF n < 10 THEN <<DigitChars[n + 1]>>
    ELSE Append(NatText(n \div 10), DigitChars[(n % 10) + 1])

IntText(n) == IF n < 0 THEN <<"-">> \o NatText(-n) ELSE NatText(n)

AllDigits(s) == s # <<>> /\ \A i \in 1..Len(s) : IsDigit(s[i])

\* a conversion that accepts unsigned numerals only
ToNumericDigitsOnly(cell) ==
    IF AllDigits(cell) THEN [nan |-> FALSE, v |-> ParseNat(cell)]
    ELSE [nan |-> TRUE, v |-> 0]

\* pd.to_numeric(..., errors='coerce') on one cell: a number, or NaN
ToNumeric(cell) ==
    IF AllDigits(cell) THEN [nan |-> FALSE, v |-> ParseNat(cell)]
    ELSE IF cell # <<>> /\ cell[1] = "-" /\ AllDigits(Tail(cell))
         THEN [nan |-> FALSE, v |-> -ParseNat(Tail(cell))]
         ELSE [nan |-> TRUE, v |-> 0]

\* .fillna(0)
FillNa(x) == IF x.nan THEN 0 ELSE x.v

\* a note is a sequence of tokens: a word (or phrase) or a run of digits
Word(w) == [w |-> w, d |-> <<>>]
Num(n) == [w |-> "", d |-> NatText(n)]

\* re.IGNORECASE on the two phrases of the pattern
Lower(w) ==
    CASE w \in {"See line", "SEE LINE", "see line"} -> "see line"
      [] w \in {"Already in Line", "ALREADY IN LINE", "already in line"} -> "already in line"
      [] OTHER -> w

MatchesAt(note, i) ==
    /\ i < Len(note)
    /\ Lower(note[i].w) \in {"see line", "already in line"}
    /\ AllDigits(note[i + 1].d)

\* re.search(r'(?:See line|Already in Line)\s+(\d+)', note, re.IGNORECASE)
HasDirective(note) == \E i \in 1..Len(note) : MatchesAt(note, i)

\* int(match.group(1)) of the leftmost match
TargetLine(note) ==
    LET i == CHOOSE k \in 1..Len(note) :
                 MatchesAt(note, k) /\ \A j \in 1..(k - 1) : ~MatchesAt(note, j)
    IN ParseNat(note[i + 1].d)

----------------------------------------------------------------------------
(* DataFrames *)

NoFrame == [cols |-> {}, rows |-> <<>>]

\* DataFrame.empty
IsEmpty(f) == f.cols = {} \/ f.rows = <<>>

ZeroPct == <<0, 1>>

RECURSIVE Gcd(_, _)
Gcd(a, b) == IF b = 0 THEN a ELSE Gcd(b, a % b)

Abs(x) == IF x < 0 THEN -x ELSE x

\* num / den * 100 as a fraction in lowest terms (den # 0)
Pct(num, den) ==
    LET n == 100 * num
        g == Gcd(Abs(n), Abs(den))
        s == IF den < 0 THEN -1 ELSE 1
    IN <<(s * n) \div g, (s * den) \div g>>

\* load_data: the try block
LoadFails(src) == ~src.readable \/ ~(LoadCols \subseteq src.cols)

\* one row of the loaded table; a column the file lacks holds nothing
LoadRow(r, cols) ==
    [Line |-> IF "Line" \in cols THEN r.Line ELSE 0,
     Category |-> IF "Category" \in cols THEN r.Category ELSE "",
     Area |-> IF "Area" \in cols THEN r.Area ELSE "",
     Budget2026 |-> FillNa(ToNumeric(r.c2026)),
     Actuals2025 |-> FillNa(ToNumeric(r.c2025)),
     Actuals2024 |-> FillNa(ToNumeric(r.c2024)),
     Notes |-> IF r.Notes = <<>> THEN <<Word(DefaultNote)>> ELSE r.Notes,
     Diff |-> 0, Increase_Amt |-> 0, VarPct |-> ZeroPct]

LoadResult(src) ==
    IF LoadFails(src)
    THEN [df |-> NoFrame, error |-> TRUE]
    ELSE [df |-> [cols |-> src.cols,
                  rows |-> [i \in 1..Len(src.rows) |-> LoadRow(src.rows[i], src.cols)]],
          error |-> FALSE]

----------------------------------------------------------------------------
(* The re-mapping loop, lines 80-91 *)

Min(S) == CHOOSE x \in S : \A y \in S : x <= y

\* adj_df[adj_df['Line'] == target_line].index
RowsWithLine(rows, n) == {k \in 1..Len(rows) : rows[k].Line = n}

\* the loop body without line 91
ReallocStepNoZero(rows, row, i) ==
    IF ~HasDirective(row.Notes) THEN rows
    ELSE LET hits == RowsWithLine(rows, TargetLine(row.Notes))
         IN IF hits = {} THEN rows
            ELSE [rows EXCEPT ![Min(hits)].Actuals2025 = @ + row.Actuals2025]

\* the loop body with line 91 outside the test of line 87
ReallocStepZeroAlways(rows, row, i) ==
    IF ~HasDirective(row.Notes) THEN rows
    ELSE LET hits == RowsWithLine(rows, TargetLine(row.Notes))
         IN IF hits = {} THEN [rows EXCEPT ![i].Actuals2025 = 0]
            ELSE [[rows EXCEPT ![Min(hits)].Actuals2025 = @ + row.Actuals2025]
                     EXCEPT ![i].Actuals2025 = 0]

\* One pass of the loop body for the row iterrows() yielded at position i.
\* `row` is the yielded copy of the row; `rows` are adj_df's live rows.
ReallocStep(rows, row, i) ==
    IF ~HasDirective(row.Notes) THEN rows
    ELSE LET hits == RowsWithLine(rows, TargetLine(row.Notes))
         IN IF hits = {} THEN rows
            ELSE [[rows EXCEPT ![Min(hits)].Actuals2025 = @ + row.Actuals2025]
                     EXCEPT ![i].Actuals2025 = 0]

\* the loop run over the positions of `order`, each row read from `orig`
RECURSIVE ReallocateInOrder(_, _, _)
ReallocateInOrder(rows, orig, order) ==
    IF order = <<>> THEN rows
    ELSE ReallocateInOrder(ReallocStep(rows, orig[Head(order)], Head(order)),
                           orig, Tail(order))

RowOrder(n) == [i \in 1..n |-> i]

\* for idx, row in adj_df.iterrows(): the rows in index order
Reallocate(rows) == ReallocateInOrder(rows, rows, RowOrder(Len(rows)))

----------------------------------------------------------------------------
(* Variance and conversion, lines 63-64 and 93-104 *)

\* convert(val) = val * rates[currency]
Convert(val, c) == val * RateMilli(c)

\* the difference taken the other way round
WithDiffSwapped(rows) ==
    [i \in 1..Len(rows) |->
        [rows[i] EXCEPT !.Diff = rows[i].Actuals2025 - rows[i].Budget2026]]

\* adj_df['Diff'] = adj_df['2026 Budget'] - adj_df['2025 Actuals']
WithDiff(rows) ==
    [i \in 1..Len(rows) |->
        [rows[i] EXCEPT !.Diff = rows[i].Budget2026 - rows[i].Actuals2025]]

\* df[col] = df[col].apply(convert) for the three amount columns
ConvertRows(rows, c) ==
    [i \in 1..Len(rows) |->
        [rows[i] EXCEPT !.Actuals2024 = Convert(@, c),
                        !.Actuals2025 = Convert(@, c),
                        !.Budget2026 = Convert(@, c)]]

\* float division: a zero divisor yields inf or nan, written <<sign, 0>>
Divide100(num, den) ==
    IF den = 0
    THEN <<IF num > 0 THEN 1 ELSE IF num < 0 THEN -1 ELSE 0, 0>>
    ELSE Pct(num, den)

\* the lambda without its test of a zero prior
PctChangeUnguarded(prior, current, inc) ==
    IF prior = 0 /\ current > 0 THEN <<100, 1>> ELSE Divide100(inc, prior)

\* the lambda of df['Var %']
PctChange(prior, current, inc) ==
    IF prior = 0 /\ current > 0 THEN <<100, 1>>
    ELSE IF prior # 0 THEN Divide100(inc, prior) ELSE ZeroPct

\* df['Increase_Amt'] and df['Var %']
WithVariance(rows) ==
    [i \in 1..Len(rows) |->
        LET inc == rows[i].Budget2026 - rows[i].Actuals2025
        IN [rows[i] EXCEPT
               !.Increase_Amt = inc,
               !.VarPct = PctChange(rows[i].Actuals2025, rows[i].Budget2026, inc)]]

----------------------------------------------------------------------------
(* Rendered views, lines 119-242 *)

RECURSIVE SumOf(_, _)
SumOf(rows, col) ==
    IF rows = <<>> THEN 0
    ELSE (CASE col = "2024 Actuals" -> Head(rows).Actuals2024
            [] col = "2025 Actuals" -> Head(rows).Actuals2025
            [] col = "2026 Budget" -> Head(rows).Budget2026) + SumOf(Tail(rows), col)

\* str.contains('Reserve', case=False, na=False)
ContainsReserve(c) == c \in {"Reserve Fund", "reserve fund", "RESERVE"}

\* boolean-mask selection: the rows at the positions in `keep`, in order
RECURSIVE Select(_, _, _)
Select(rows, keep, i) ==
    IF i > Len(rows) THEN <<>>
    ELSE (IF i \in keep THEN <<rows[i]>> ELSE <<>>) \o Select(rows, keep, i + 1)

\* df[~df['Category'].str.contains('Reserve', ...)]
NonReserve(rows) ==
    Select(rows, {k \in 1..Len(rows) : ~ContainsReserve(rows[k].Category)}, 1)

OnlyReserve(rows) ==
    Select(rows, {k \in 1..Len(rows) : ContainsReserve(rows[k].Category)}, 1)

\* main_df[main_df['Category'] == selected_cat]
InCategory(rows, c) ==
    Select(rows, {k \in 1..Len(rows) : rows[k].Category = c}, 1)

\* rows ordered by Diff, largest (sign = 1) or smallest (sign = -1) first,
\* ties in their original order
RECURSIVE OrderByDiff(_, _, _)
OrderByDiff(rows, left, sign) ==
    IF left = {} THEN <<>>
    ELSE LET best == CHOOSE i \in left : \A j \in left :
                        \/ sign * rows[i].Diff > sign * rows[j].Diff
                        \/ (rows[i].Diff = rows[j].Diff /\ i <= j)
         IN <<rows[best]>> \o OrderByDiff(rows, left \ {best}, sign)

FirstN(s, n) == SubSeq(s, 1, IF Len(s) < n THEN Len(s) ELSE n)

\* the expander of one driver: category, area and convert(row['Diff'])
Driver(row, c) == [Category |-> row.Category, Area |-> row.Area, diff_val |-> Convert(row.Diff, c)]

\* main_adj_df.nlargest(5, 'Diff') / nsmallest(5, 'Diff'), as the expanders drawn
Drivers(rows, sign, c) ==
    LET top == FirstN(OrderByDiff(rows, 1..Len(rows), sign), TopN)
    IN [i \in 1..Len(top) |-> Driver(top[i], c)]

\* main_df.groupby('Category')[val_cols].sum()
CatSummary(rows) ==
    {[Category |-> c,
      sums |-> LET g == InCategory(rows, c)
               IN <<SumOf(g, "2024 Actuals"), SumOf(g, "2025 Actuals"), SumOf(g, "2026 Budget")>>]
     : c \in {rows[i].Category : i \in 1..Len(rows)}}

\* sorted(): the order of Python strings on the categories of the model
CatRank(c) ==
    CASE c = "Ops" -> 1 [] c = "Reserve Fund" -> 2 [] c = "Staff" -> 3 [] OTHER -> 4

\* st.selectbox("Filter by Category", dropdown_options): the chosen option, the
\* first one when none was chosen, "" (None) when there is no option
SelectValue(options, chosen) ==
    IF chosen \in options THEN chosen
    ELSE IF options = {} THEN ""
         ELSE CHOOSE c \in options : \A o \in options : CatRank(c) <= CatRank(o)

\* table_df: area_df[['Line', 'Area', '2025 Actuals', '2026 Budget', 'Var %', '2026 Notes']]
TableRows(rows) ==
    [i \in 1..Len(rows) |->
        [Line |-> rows[i].Line, Area |-> rows[i].Area,
         Actuals2025 |-> rows[i].Actuals2025, Budget2026 |-> rows[i].Budget2026,
         VarPct |-> rows[i].VarPct, Notes |-> rows[i].Notes]]

NoView ==
    [reserve |-> <<0, 0, 0>>, top_inc |-> <<>>, top_dec |-> <<>>, cat_summary |-> {},
     options |-> {}, shown_cat |-> "", table |-> <<>>,
     csv |-> [file |-> "", rows |-> <<>>]]

----------------------------------------------------------------------------
(* The script run *)

FrameIds == {"raw", "df", "adj"}

NoFrames == [f \in FrameIds |-> NoFrame]

NoBind == [raw_df |-> "raw", df |-> "df", adj_df |-> "adj"]

NoCache == [set |-> FALSE, val |-> [df |-> NoFrame, error |-> FALSE]]

\* an assignment without .copy(): both names refer to one object
DfAlias(src, fresh) == src

\* DataFrame.copy(): the object the assigned name refers to afterwards

DfCopy(src, fresh) == fresh

RawDf == frames[bind.raw_df]
Df == frames[bind.df]
AdjDf == frames[bind.adj_df]

\* Streamlit starts the script again from its first line
BeginRun ==
    /\ pc' = "gate"
    /\ idx' = 0
    /\ iter_rows' = <<>>
    /\ frames' = NoFrames
    /\ bind' = NoBind
    /\ err' = {}
    /\ ran' = {}
    /\ view' = NoView
    /\ rendered' = {}

Finished == pc \in {"idle", "exception"}

\* a comparison that ignores case
PasswordMatchesAnyCase(pw) == pw \in {"Oasis2026", "oasis2026"}

\* password_entered: st.session_state["password"] == "Oasis2026"

PasswordMatches(pw) == pw = Secret

Passwords == {Secret, "oasis2026", ""}

\* the user types a password: the on_change callback, then a rerun
Submit(pw) ==
    /\ Finished
    /\ "password" \in rendered
    /\ password_correct' = IF PasswordMatches(pw) THEN "True" ELSE "False"
    /\ everCorrect' = (everCorrect \/ pw = Secret)
    /\ BeginRun
    /\ UNCHANGED <<source, cache, currency, selected_cat>>

\* the user picks another currency in the sidebar: a rerun
SelectCurrency(c) ==
    /\ Finished
    /\ "currency" \in rendered
    /\ c # currency
    /\ currency' = c
    /\ BeginRun
    /\ UNCHANGED <<source, cache, password_correct, everCorrect, selected_cat>>

\* the user picks another category in the filter: a rerun
SelectCategory(k) ==
    /\ Finished
    /\ "category" \in rendered
    /\ k \in view.options
    /\ k # view.shown_cat
    /\ selected_cat' = k
    /\ BeginRun
    /\ UNCHANGED <<source, cache, password_correct, everCorrect, currency>>

\* check_password(), lines 30-39
Gate ==
    /\ pc = "gate"
    /\ IF password_correct = "True"
       THEN /\ pc' = "load"
            /\ UNCHANGED <<rendered, err>>
       ELSE /\ pc' = "idle"
            /\ rendered' = {"password"}
            /\ err' = IF password_correct = "False" THEN {"password"} ELSE {}
    /\ UNCHANGED <<source, cache, password_correct, everCorrect, currency, selected_cat,
                   idx, iter_rows, frames, bind, ran, view>>

\* raw_df = load_data(), lines 41-54: st.cache_data runs the function once and
\* afterwards hands out a fresh copy of the stored result, replaying its st.error
LoadData ==
    /\ pc = "load"
    /\ LET res == IF cache.set THEN cache.val ELSE LoadResult(source)
       IN /\ cache' = [set |-> TRUE, val |-> res]
          /\ frames' = [frames EXCEPT ![bind.raw_df] = res.df]
          /\ err' = IF res.error THEN err \cup {"load"} ELSE err
    /\ ran' = ran \cup {"load"}
    /\ pc' = "check"
    /\ UNCHANGED <<source, password_correct, everCorrect, currency, selected_cat,
                   rendered, idx, iter_rows, bind, view>>

\* lines 56-80: the emptiness test, the sidebar, the two copies and the start
\* of the loop
StartEngine ==
    /\ pc = "check"
    /\ IF IsEmpty(RawDf)
       THEN /\ pc' = "idle"
            /\ UNCHANGED <<rendered, idx, iter_rows, frames, bind>>
       ELSE LET d == DfCopy(bind.raw_df, "df")
                a == DfCopy(d, "adj")
                f1 == [frames EXCEPT ![d] = frames[bind.raw_df]]
                f2 == [f1 EXCEPT ![a] = f1[d]]
            IN /\ bind' = [bind EXCEPT !.df = d, !.adj_df = a]
               /\ frames' = f2
               /\ iter_rows' = f2[a].rows
               /\ idx' = 1
               /\ rendered' = rendered \cup {"currency"}
               /\ pc' = "realloc"
    /\ UNCHANGED <<source, cache, password_correct, everCorrect, currency, selected_cat,
                   err, ran, view>>

\* one iteration of the loop, lines 80-91; adj_df['Line'] raises KeyError when
\* the table has no such column
ReallocRow ==
    /\ pc = "realloc"
    /\ idx <= Len(iter_rows)
    /\ IF HasDirective(iter_rows[idx].Notes) /\ "Line" \notin AdjDf.cols
       THEN /\ pc' = "exception"
            /\ UNCHANGED <<idx, frames>>
       ELSE /\ frames' = [frames EXCEPT ![bind.adj_df].rows = ReallocStep(@, iter_rows[idx], idx)]
            /\ idx' = idx + 1
            /\ pc' = "realloc"
    /\ ran' = ran \cup {"realloc"}
    /\ UNCHANGED <<source, cache, password_correct, everCorrect, currency, selected_cat,
                   rendered, iter_rows, bind, err, view>>

\* lines 93-104: Diff on the adjusted table, conversion and variance on df
Variance ==
    /\ pc = "realloc"
    /\ idx > Len(iter_rows)
    /\ LET f1 == [frames EXCEPT ![bind.adj_df] =
                     [cols |-> @.cols \cup {"Diff"}, rows |-> WithDiff(@.rows)]]
           f2 == [f1 EXCEPT ![bind.df] =
                     [cols |-> @.cols \cup {"Increase_Amt", "Var %"},
                      rows |-> WithVariance(ConvertRows(@.rows, currency))]]
       IN frames' = f2
    /\ ran' = ran \cup {"variance", "convert"}
    /\ pc' = "render"
    /\ UNCHANGED <<source, cache, password_correct, everCorrect, currency, selected_cat,
                   rendered, idx, iter_rows, bind, err, view>>

\* lines 106-163: the reserve fund chart and the top drivers; a missing
\* 'Category' (line 122) or 'Area' (line 152) column raises KeyError
RenderDrivers ==
    /\ pc = "render"
    /\ IF \/ "Category" \notin Df.cols
          \/ ("Area" \notin AdjDf.cols /\ NonReserve(AdjDf.rows) # <<>>)
       THEN /\ pc' = "exception"
            /\ UNCHANGED <<view, ran>>
       ELSE /\ view' = [view EXCEPT
                   !.reserve = <<SumOf(OnlyReserve(Df.rows), "2024 Actuals"),
                                 SumOf(OnlyReserve(Df.rows), "2025 Actuals"),
                                 SumOf(OnlyReserve(Df.rows), "2026 Budget")>>,
                   !.top_inc = Drivers(NonReserve(AdjDf.rows), 1, currency),
                   !.top_dec = Drivers(NonReserve(AdjDf.rows), -1, currency)]
            /\ ran' = ran \cup {"aggregate", "rank"}
            /\ pc' = "trends"
    /\ UNCHANGED <<source, cache, password_correct, everCorrect, currency, selected_cat,
                   rendered, idx, iter_rows, frames, bind, err>>

\* lines 165-244: category totals, the category filter, the table and the CSV
\* export; melt (line 191) needs 'Area', the table (line 217) needs 'Line'
RenderTables ==
    /\ pc = "trends"
    /\ LET main == NonReserve(Df.rows)
           options == {main[i].Category : i \in 1..Len(main)}
           shown == SelectValue(options, selected_cat)
           area == InCategory(main, shown)
       IN IF "Area" \notin Df.cols \/ "Line" \notin Df.cols
          THEN /\ pc' = "exception"
               /\ view' = [view EXCEPT !.cat_summary = CatSummary(main),
                                       !.options = options, !.shown_cat = shown]
               /\ ran' = ran \cup {"aggregate"}
          ELSE /\ pc' = "idle"
               /\ view' = [view EXCEPT !.cat_summary = CatSummary(main),
                                       !.options = options, !.shown_cat = shown,
                                       !.table = TableRows(area),
                                       !.csv = [file |-> currency, rows |-> Df.rows]]
               /\ ran' = ran \cup {"aggregate", "filter", "export"}
    /\ rendered' = rendered \cup {"category"}
    /\ UNCHANGED <<source, cache, password_correct, everCorrect, currency, selected_cat,
                   idx, iter_rows, frames, bind, err>>

----------------------------------------------------------------------------
(* The CSV files and the specifications *)

\* the 'Line' of the row at position i
LineOf(i) == 10 * i

\* a line number no row carries
NoSuchLine(n) == LineOf(n + 1) - 1

AreaNames == <<"Water", "Sewage", "Payroll", "Gardens", "Pool", "Gate">>

\* a note that sends the row to line n; the phrase varies with the target
DirectiveTo(n) ==
    IF n = LineOf(1) THEN <<Word("Moved."), Word("ALREADY IN LINE"), Num(n)>>
    ELSE IF n = LineOf(2) THEN <<Word("see line"), Num(n)>>
    ELSE <<Word("See line"), Num(n), Word("for details")>>

CsvRow(i, cat, c26, c25, c24, note) ==
    [Line |-> LineOf(i), Category |-> cat, Area |-> AreaNames[i],
     c2026 |-> c26, c2025 |-> c25, c2024 |-> c24, Notes |-> note]

Csv(cols, rows) == [readable |-> TRUE, cols |-> cols, rows |-> rows]

Unreadable == [readable |-> FALSE, cols |-> {}, rows |-> <<>>]

\* the state when the page is first opened
FirstRun ==
    /\ cache = NoCache
    /\ password_correct = "unset"
    /\ everCorrect = FALSE
    /\ currency = "MXN"
    /\ selected_cat = ""
    /\ rendered = {}
    /\ pc = "gate"
    /\ idx = 0
    /\ iter_rows = <<>>
    /\ frames = NoFrames
    /\ bind = NoBind
    /\ err = {}
    /\ ran = {}
    /\ view = NoView

\* the run of an unlocked session that is about to call load_data(); a
\* currency other than the default was picked in an earlier run, which
\* loaded the file
UnlockedRun ==
    /\ cache = IF currency = "MXN" THEN NoCache
               ELSE [set |-> TRUE, val |-> LoadResult(source)]
    /\ password_correct = "True"
    /\ everCorrect = TRUE
    /\ selected_cat = ""
    /\ rendered = {}
    /\ pc = "load"
    /\ idx = 0
    /\ iter_rows = <<>>
    /\ frames = NoFrames
    /\ bind = NoBind
    /\ err = {}
    /\ ran = {}
    /\ view = NoView

\* files of the session specification: an unreadable file, and tables under
\* every column set with at most one column missing
SessionCategories == {"Ops", "Staff", "reserve fund"}

ColumnSets == {Columns} \cup {Columns \ {c} : c \in Columns}

SessionNotes == {<<>>, DirectiveTo(LineOf(1))}

Init ==
    /\ \E readable \in BOOLEAN, cs \in ColumnSets,
          cat \in [1..SessionRows -> SessionCategories],
          c25 \in [1..SessionRows -> {<<>>, <<"4">>}],
          note \in [1..SessionRows -> SessionNotes] :
          source = IF readable
                   THEN Csv(cs, [i \in 1..SessionRows |->
                                    CsvRow(i, cat[i], <<"6">>, c25[i], <<"3">>, note[i])])
                   ELSE Unreadable
    /\ FirstRun

Next ==
    \/ \E pw \in Passwords : Submit(pw)
    \/ \E c \in Currencies : SelectCurrency(c)
    \/ \E k \in SessionCategories : SelectCategory(k)
    \/ Gate
    \/ LoadData
    \/ StartEngine
    \/ ReallocRow
    \/ Variance
    \/ RenderDrivers
    \/ RenderTables

Spec == Init /\ [][Next]_vars

\* files of the reallocation specification: every row may point at any row,
\* itself included, or at a line that does not exist
ReallocNotes ==
    {<<>>} \cup {DirectiveTo(LineOf(j)) : j \in 1..NRows} \cup {DirectiveTo(NoSuchLine(NRows))}

InitRealloc ==
    /\ \E a \in [1..NRows -> 0..MaxPrior], note \in [1..NRows -> ReallocNotes] :
          source = Csv(Columns, [i \in 1..NRows |->
                                    CsvRow(i, "Ops", <<"1">>, NatText(a[i]), <<"3">>, note[i])])
    /\ currency = "MXN"
    /\ UnlockedRun

NextRealloc == LoadData \/ StartEngine \/ ReallocRow

SpecRealloc == InitRealloc /\ [][NextRealloc]_vars

\* files of the variance specification: amounts of either sign
InitVariance ==
    /\ \E b \in [1..SessionRows -> {-1, 0, MaxAmount}],
          a \in [1..SessionRows -> -1..MaxAmount],
          note \in [1..SessionRows -> SessionNotes] :
          source = Csv(Columns, [i \in 1..SessionRows |->
                                    CsvRow(i, "Ops", IntText(b[i]), IntText(a[i]), <<"3">>, note[i])])
    /\ currency \in Currencies
    /\ UnlockedRun

NextVariance == LoadData \/ StartEngine \/ ReallocRow \/ Variance

SpecVariance == InitVariance /\ [][NextVariance]_vars

\* files of the load specification: the amount cells of the first row hold
\* any text of up to MaxCellLen characters
CellChars == {"-", "$", "0", "7"}

CellTexts == UNION {[1..n -> CellChars] : n \in 0..MaxCellLen}

InitLoad ==
    /\ \E c26 \in CellTexts, c25 \in CellTexts, c24 \in {<<>>, <<"-", "7">>} :
          source = Csv(Columns, [i \in 1..SessionRows |->
                                    IF i = 1 THEN CsvRow(i, "Ops", c26, c25, c24, <<>>)
                                    ELSE CsvRow(i, "Staff", <<"6">>, <<"4">>, <<"3">>, <<>>)])
    /\ currency = "MXN"
    /\ UnlockedRun

NextLoad == LoadData \/ StartEngine

SpecLoad == InitLoad /\ [][NextLoad]_vars

----------------------------------------------------------------------------
(* Reallocation: claims C1, C2, C4 and C10, under SpecRealloc *)

\* the loop has processed every row
LoopDone == pc = "realloc" /\ idx > Len(iter_rows)

\* row d of the normalized table carries a directive that names row t's Line
Resolves(orig, d, t) ==
    HasDirective(orig[d].Notes) /\ orig[t].Line = TargetLine(orig[d].Notes)

IsDonor(orig, d) == \E t \in 1..Len(orig) : Resolves(orig, d, t)

DonorsOf(orig, t) == {d \in 1..Len(orig) : Resolves(orig, d, t)}

Unresolved(orig, d) == HasDirective(orig[d].Notes) /\ ~IsDonor(orig, d)

RECURSIVE SumPrior(_, _)
SumPrior(orig, S) ==
    IF S = {} THEN 0
    ELSE LET d == CHOOSE x \in S : TRUE
         IN orig[d].Actuals2025 + SumPrior(orig, S \ {d})

\* the prior-period value the pass leaves in row r
FinalPrior(orig, r) ==
    LET donors == DonorsOf(orig, r)
    IN IF IsDonor(orig, r)
       THEN SumPrior(orig, {d \in donors : d > r})
       ELSE orig[r].Actuals2025 + SumPrior(orig, donors)

Perms(n) == {p \in [1..n -> 1..n] : \A i, j \in 1..n : p[i] = p[j] => i = j}

\* C2: the loop run over the rows in any order leaves the same 2025 Actuals
\* as the loop the program runs.
C2_OrderIndependent ==
    LoopDone =>
        \A p \in Perms(Len(RawDf.rows)) :
            ReallocateInOrder(RawDf.rows, RawDf.rows, p) = AdjDf.rows

\* C4: the iteration of a row whose directive names a line that no row
\* carries changes no row of the derived table, raises nothing and moves on
\* to the next row.
C4_UnresolvedIsNoOp ==
    [][(/\ pc = "realloc"
        /\ idx <= Len(iter_rows)
        /\ HasDirective(iter_rows[idx].Notes)
        /\ RowsWithLine(AdjDf.rows, TargetLine(iter_rows[idx].Notes)) = {})
       => (/\ frames' = frames
           /\ pc' = "realloc"
           /\ idx' = idx + 1)]_vars

\* the pass is over; it went through a row with a positive amount whose
\* directive names no row, and that row still holds its amount
C4_Witness ==
    /\ LoopDone
    /\ \E d \in 1..(Len(iter_rows) - 1) :
          /\ Unresolved(RawDf.rows, d)
          /\ RawDf.rows[d].Actuals2025 > 0
          /\ DonorsOf(RawDf.rows, d) = {}
          /\ AdjDf.rows[d].Actuals2025 = RawDf.rows[d].Actuals2025
          /\ \E e \in (d + 1)..Len(iter_rows) : IsDonor(RawDf.rows, e)

\* C10: after the pass the 2025 Actuals of the derived table add up to the
\* 2025 Actuals of the normalized table.
C10_TotalConserved ==
    LoopDone =>
        SumOf(AdjDf.rows, "2025 Actuals") = SumOf(RawDf.rows, "2025 Actuals")

----------------------------------------------------------------------------
(* Variance: claims C3 and C5, under SpecVariance *)

\* lines 93-104 have run
VarianceDone == pc = "render"

\* v is the percentage num / den * 100, den # 0
IsPctOf(v, num, den) == v[2] > 0 /\ v[1] * den = 100 * num * v[2]

\* v is the Var % of a row with the given prior and current amounts
IsVarPct(v, prior, current) ==
    /\ (prior = 0 /\ current > 0) => v = <<100, 1>>
    /\ (prior = 0 /\ current <= 0) => v = <<0, 1>>
    /\ prior # 0 => IsPctOf(v, current - prior, prior)

\* C3 as stated: Diff, the increase and Var % of every row are taken from
\* the row's reallocated 2025 Actuals.
C3_AsClaimed ==
    VarianceDone =>
        \A i \in 1..Len(RawDf.rows) :
            LET prior == Convert(AdjDf.rows[i].Actuals2025, currency)
                current == Convert(RawDf.rows[i].Budget2026, currency)
            IN /\ AdjDf.rows[i].Diff = RawDf.rows[i].Budget2026 - AdjDf.rows[i].Actuals2025
               /\ Df.rows[i].Increase_Amt = current - prior
               /\ IsVarPct(Df.rows[i].VarPct, prior, current)

\* C3 amended: Diff of the derived table, which ranks the drivers, is the 2026
\* Budget minus the reallocated 2025 Actuals; Increase_Amt and Var % of the
\* displayed table are taken from the converted ORIGINAL 2025 Actuals.
C3_Variance ==
    VarianceDone =>
        \A i \in 1..Len(RawDf.rows) :
            LET prior == Convert(RawDf.rows[i].Actuals2025, currency)
                current == Convert(RawDf.rows[i].Budget2026, currency)
            IN /\ AdjDf.rows[i].Actuals2025 = FinalPrior(RawDf.rows, i)
               /\ AdjDf.rows[i].Diff = RawDf.rows[i].Budget2026 - FinalPrior(RawDf.rows, i)
               /\ Df.rows[i].Actuals2025 = prior
               /\ Df.rows[i].Budget2026 = current
               /\ Df.rows[i].Increase_Amt = current - prior
               /\ IsVarPct(Df.rows[i].VarPct, prior, current)

\* a row with original prior > 0 and current 0 was merged into another row:
\* its Diff is 0 and its Var % is -100
C3_Witness ==
    /\ VarianceDone
    /\ \E d, t \in 1..Len(RawDf.rows) :
          /\ d # t
          /\ Resolves(RawDf.rows, d, t)
          /\ RawDf.rows[d].Actuals2025 > 0
          /\ RawDf.rows[d].Budget2026 = 0
          /\ AdjDf.rows[d].Actuals2025 = 0
          /\ AdjDf.rows[d].Diff = 0
          /\ Df.rows[d].VarPct = <<-100, 1>>

\* C5: Var % is 100 when the prior amount is 0 and the current one positive,
\* 0 when both are 0, and diff / prior * 100 when the prior amount is not 0;
\* it is never the result of a division by a zero prior amount.
C5_PctChange ==
    VarianceDone =>
        \A i \in 1..Len(Df.rows) :
            LET prior == Df.rows[i].Actuals2025
                current == Df.rows[i].Budget2026
                v == Df.rows[i].VarPct
            IN /\ v[2] > 0
               /\ (prior = 0 /\ current > 0) => v = <<100, 1>>
               /\ (prior = 0 /\ current = 0) => v = <<0, 1>>
               /\ prior # 0 => IsPctOf(v, current - prior, prior)

\* one row has a zero prior and a positive current amount, another one a
\* prior that is not zero and a current amount that differs from it
C5_Witness ==
    /\ VarianceDone
    /\ \E i, j \in 1..Len(Df.rows) :
          /\ Df.rows[i].Actuals2025 = 0 /\ Df.rows[i].Budget2026 > 0
          /\ Df.rows[i].VarPct = <<100, 1>>
          /\ Df.rows[j].Actuals2025 # 0 /\ Df.rows[j].Budget2026 # Df.rows[j].Actuals2025
          /\ Df.rows[j].VarPct[1] # 0

----------------------------------------------------------------------------
(* Normalization: claim C6, under SpecLoad *)

Loaded == pc # "load" /\ "load" \in ran

\* the cell is not the text of a number
Malformed(cell) ==
    \/ cell = <<>>
    \/ cell = <<"-">>
    \/ \E k \in 1..Len(cell) : ~IsDigit(cell[k]) /\ cell[k] # "-"
    \/ \E k \in 2..Len(cell) : cell[k] = "-"

AmountCells(r) == <<r.c2026, r.c2025, r.c2024>>

Amounts(r) == <<r.Budget2026, r.Actuals2025, r.Actuals2024>>

\* C6 as stated: after the load every amount is a number >= 0, and a cell
\* that is not the text of a number has become 0.
C6_AsClaimed ==
    Loaded =>
        \A i \in 1..Len(source.rows) : \A k \in 1..3 :
            LET cell == AmountCells(source.rows[i])[k]
                amount == Amounts(RawDf.rows[i])[k]
            IN /\ amount \in Int
               /\ amount >= 0
               /\ Malformed(cell) => amount = 0

\* C6 amended: after the load every amount is a number; a cell that is not
\* the text of a number has become 0, and a cell that is keeps its value,
\* a negative one included.
C6_Normalized ==
    Loaded =>
        /\ Len(RawDf.rows) = Len(source.rows)
        /\ \A i \in 1..Len(source.rows) : \A k \in 1..3 :
              LET cell == AmountCells(source.rows[i])[k]
                  amount == Amounts(RawDf.rows[i])[k]
              IN /\ amount \in Int
                 /\ Malformed(cell) => amount = 0
                 /\ (~Malformed(cell) /\ cell[1] # "-") => amount = ParseNat(cell)
                 /\ (~Malformed(cell) /\ cell[1] = "-") => amount = -ParseNat(Tail(cell))

\* the first row was loaded from a negative numeral and a cell with a
\* currency symbol
C6_Witness ==
    /\ Loaded
    /\ source.rows[1].c2026 = <<"-", "7">>
    /\ RawDf.rows[1].Budget2026 = -7
    /\ source.rows[1].c2025 = <<"$", "7">>
    /\ RawDf.rows[1].Actuals2025 = 0

----------------------------------------------------------------------------
(* The session: claims C7, C8 and C9, under Spec *)

DashboardOps == {"load", "realloc", "variance", "convert", "aggregate", "rank", "filter", "export"}

\* the converted amounts of the normalized table
ConvertedAmounts(rows, c) ==
    [i \in 1..Len(rows) |->
        <<Convert(rows[i].Actuals2024, c), Convert(rows[i].Actuals2025, c),
          Convert(rows[i].Budget2026, c)>>]

AmountsOf(rows) ==
    [i \in 1..Len(rows) |-> <<rows[i].Actuals2024, rows[i].Actuals2025, rows[i].Budget2026>>]

\* C7: in every run of the session the cached result and raw_df hold exactly
\* what the load produced, and what a completed run exports and ranks is
\* computed from that table and the selected currency and category alone.
C7_RawImmutable ==
    /\ cache.set => cache.val = LoadResult(source)
    /\ "load" \in ran => RawDf = LoadResult(source).df
    /\ (pc = "idle" /\ "export" \in ran) =>
          /\ AmountsOf(view.csv.rows) = ConvertedAmounts(LoadResult(source).df.rows, currency)
          /\ view.csv.file = currency
          /\ AdjDf.rows = WithDiff(Reallocate(LoadResult(source).df.rows))
          /\ view.shown_cat = SelectValue(view.options, selected_cat)
          /\ LET want == InCategory(LoadResult(source).df.rows, view.shown_cat)
             IN /\ Len(view.table) = Len(want)
                /\ \A i \in 1..Len(want) :
                      /\ view.table[i].Line = want[i].Line
                      /\ view.table[i].Actuals2025 = Convert(want[i].Actuals2025, currency)

\* a run completed under a currency and a category picked in earlier runs,
\* on a table whose reallocation and conversion changed amounts
C7_Witness ==
    /\ pc = "idle"
    /\ "export" \in ran
    /\ currency = "CAD"
    /\ selected_cat = "Staff"
    /\ view.shown_cat = "Staff"
    /\ AdjDf.rows # WithDiff(RawDf.rows)
    /\ AmountsOf(Df.rows) # AmountsOf(RawDf.rows)

\* C8: a run goes past the gate only if the correct secret was submitted
\* before, every run after a correct submission goes past the gate and loads
\* the data, and the session never locks again.
C8_Gate ==
    /\ (pc \notin {"gate", "idle"} \/ ran # {}) => everCorrect
    /\ everCorrect <=> password_correct = "True"
    /\ (Finished /\ everCorrect) => "load" \in ran
    /\ (pc = "idle" /\ everCorrect /\ source.readable /\ source.cols = Columns
            /\ source.rows # <<>>) => ran = DashboardOps
    /\ (Finished /\ ~everCorrect) => (ran = {} /\ view = NoView /\ frames = NoFrames)

\* a run of an unlocked session has completed every operation
C8_Witness ==
    /\ pc = "idle"
    /\ everCorrect
    /\ ran = DashboardOps
    /\ "password" \notin rendered

\* the file cannot be read, or lacks a column the script uses
BadSource(src) == ~src.readable \/ ~(Columns \subseteq src.cols)

\* C9: a run on such a file ends with the load's error on the page, with no
\* operation after the load executed, and without an unhandled exception.
C9_LoadErrorHalts ==
    (Finished /\ everCorrect /\ BadSource(source)) =>
        /\ "load" \in err
        /\ ran \subseteq {"load"}
        /\ pc # "exception"

====
